---- MODULE Spec2Model ----
(***************************************************************************)
(* Model of the particle engine of src/unnamed/part_001 (ParticleCanvas): *)
(* the transient slot allocator, the firework (burst) subsystem, the       *)
(* gesture state machine and the per-frame callback `animate`.             *)
(*                                                                         *)
(* Numbers are fixed point: one unit is 0.001 of the source's float        *)
(* (positions, velocities, colours, normalised landmark coordinates and    *)
(* blend weights); a product with a decimal factor f is x * (1000 f)       *)
(* \div 1000.  Time is in milliseconds.                                    *)
(***************************************************************************)
EXTENDS Integers, Sequences, FiniteSets, TLC

(***************************************************************************)
(* Sizes.  The source runs with FLOWER_COUNT = 150000, BG_COUNT = 30000,   *)
(* SPARK_CNT = 50 and TRAIL_LEN = 12; the model keeps the code and scales  *)
(* the sizes down.  BG_COUNT is a variable fixed by Init, so that builds   *)
(* whose reserve is smaller than, equal to and larger than one burst are   *)
(* all explored.                                                           *)
(***************************************************************************)
FLOWER_COUNT == 2
SPARK_CNT == 2
TRAIL_LEN == 2

\* literals of the source
LIFE_FRAMES == 90
DEBOUNCE_CAP == 10
MAGIC_ON == 6
MAGIC_OFF == 2
PINCH_COOLDOWN == 250
PINCH_DIST == 40

\* bounds of the exploration
FrameDt == 125
StartTime == 300
SpawnWindow == 2
MaxSpawns == 2
TailFrames == 3
ModeFrames == 20
MaxFlips == 3

FlickerFrames == 14

GestureFrames == 9

IdleFrames == 20

MaxChanges == 2

PointerFrames == 3

MaxMoves == 3

POD_COUNT == 10

MaxAllocSpawns == 4

AllocFrames == 3

HandsFrames == 14

PinchFrames == 6

MaxClicks == 2

VARIABLES
    BG_COUNT,             \* build configuration: size of the background range
    timeNow,              \* performance.now() of the last frame
    frame,                \* number of completed animate calls (bookkeeping)
    videoTime,            \* videoRef.current.currentTime
    lastVideoTime,        \* lastVideoTimeRef
    magicModeDebounce,    \* magicModeDebounceRef
    isMagicMode,          \* isMagicModeRef
    isGalaxyMode,         \* isGalaxyModeRef
    galaxyTransition,     \* galaxyTransitionRef
    magicTransition,      \* magicTransitionRef
    handFactor,           \* handFactorRef
    rotation,             \* rotationRef
    prevLeftHand,         \* prevLeftHandRef
    fireworks,            \* fireworksRef
    lastFireworkTime,     \* lastFireworkTimeRef
    fireworkCursor,       \* fireworkCursorRef
    curr,                 \* currentPositionsRef
    cols,                 \* geometry colour attribute
    drifts,               \* driftRef
    mouseWorldPos,        \* mouseWorldPosRef
    pointer,              \* pointerRef
    shapes,               \* the shape target buffers (lotus, galaxy, magic)
    obs                   \* observations of the run (history, not program state)

vars == << BG_COUNT, timeNow, frame, videoTime, lastVideoTime, magicModeDebounce,
           isMagicMode, isGalaxyMode, galaxyTransition, magicTransition, handFactor,
           rotation, prevLeftHand, fireworks, lastFireworkTime, fireworkCursor,
           curr, cols, drifts, mouseWorldPos, pointer, shapes, obs >>

----------------------------------------------------------------------------
\* Index ranges

PARTICLE_COUNT == FLOWER_COUNT + BG_COUNT

FIREWORK_PARTICLES_START == FLOWER_COUNT

\* "Reserved for fireworks": 25000 of the 30000 background particles in the source,
\* the same share of the background here
FIREWORK_PARTICLES_COUNT == (BG_COUNT * 25000) \div 30000

SlotsPerBurst == SPARK_CNT * (1 + TRAIL_LEN)

ReserveSize == PARTICLE_COUNT - FIREWORK_PARTICLES_START

BgCounts == { SlotsPerBurst - 1, SlotsPerBurst, SlotsPerBurst + 2 }

Indices == 0 .. (PARTICLE_COUNT - 1)

Min(a, b) == IF a < b THEN a ELSE b

Max(a, b) == IF a > b THEN a ELSE b

Range(s) == { s[k] : k \in 1 .. Len(s) }

----------------------------------------------------------------------------
\* Shape target buffers (one outcome of the generators' random draws)

sampleLotusPos(i) == IF i < FLOWER_COUNT THEN << 100 * i, 100, 0 >>
               ELSE << 1000 * (i - FLOWER_COUNT) - 2000, 3000, -1000 >>

sampleLotusCol(i) == IF i < FLOWER_COUNT THEN << 1000, 412, 706 >> ELSE << 439, 500, 500 >>

sampleLotusDrift(i) == IF i < FLOWER_COUNT THEN << 3000, 2, 500 >> ELSE << 100 * i, 8, 0 >>

sampleGalPos(i) == << 4000 - 500 * i, 200, 300 * i >>

sampleGalCol(i) == IF i % 7 = 0 THEN << 878, 878, 1000 >> ELSE << 0, 1000, 1000 >>

sampleMagPos(i) == << 2200 - 300 * i, 100 * i, 0 >>

sampleMagCol(i) == << 1000, 843, 0 >>

----------------------------------------------------------------------------
\* Shape generators: which sub-region writes each index, as the loops of
\* generateLotus, generateGalaxy and generateMagicShield decide it.  The generators
\* take the sizes as parameters here (flower for FLOWER_COUNT, n for PARTICLE_COUNT),
\* so that they can be run for sizes larger than those of the engine above.

\* the buffers of one generation: the region that wrote each index last (a sequence:
\* its element i + 1 is for index i), and the indices outside the buffers that a
\* write was aimed at
NewBuffers(n) == [reg |-> [k \in 1 .. n |-> "none"], outside |-> {}]

WriteAt(buf, i, region) ==
    IF i >= 0 /\ i < Len(buf.reg) THEN [buf EXCEPT !.reg[i + 1] = region]
    ELSE [buf EXCEPT !.outside = @ \cup {i}]

\* a loop that writes count consecutive indices from pIndex on, as one step
WriteBlock(buf, pIndex, count, region) ==
    LET n == Len(buf.reg)
        from == Min(pIndex, n)
        to == Min(pIndex + count, n)
    IN [reg |-> SubSeq(buf.reg, 1, from) \o [k \in 1 .. (to - from) |-> region]
                   \o SubSeq(buf.reg, to + 1, n),
        outside |-> buf.outside \cup { i \in pIndex .. (pIndex + count - 1) : i >= n }]

\* "for (let i = 0; i < podCount; i++)"
PodLoop(buf, pIndex) ==
    [buf |-> WriteBlock(buf, pIndex, POD_COUNT, "pod"), pIndex |-> pIndex + POD_COUNT]

layers == << [count |-> 6, name |-> "petals1"], [count |-> 9, name |-> "petals2"],
             [count |-> 12, name |-> "petals3"], [count |-> 16, name |-> "petals4"],
             [count |-> 20, name |-> "petals5"] >>

\* "for (let p = 0; p < layer.count; p++) for (let k = 0; k < partsPerPetal; k++)
\* { if (pIndex >= FLOWER_COUNT) break; ...": the petals of one layer, written one
\* after the other until every petal has partsPerPetal particles or pIndex reaches
\* FLOWER_COUNT
LayerLoop(layer, partsPerPetal, buf, pIndex, flower) ==
    LET count == Max(0, Min(layer.count * Max(0, partsPerPetal), flower - pIndex))
    IN [buf |-> WriteBlock(buf, pIndex, count, layer.name), pIndex |-> pIndex + count]

\* "layers.forEach((layer) => { const partsPerPetal = Math.floor(...)"
RECURSIVE LayersLoop(_, _, _, _, _)
LayersLoop(l, particlesPerLayer, buf, pIndex, flower) ==
    IF l > Len(layers) THEN [buf |-> buf, pIndex |-> pIndex]
    ELSE LET r == LayerLoop(layers[l], particlesPerLayer \div layers[l].count,
                            buf, pIndex, flower)
         IN LayersLoop(l + 1, particlesPerLayer, r.buf, r.pIndex, flower)

\* "for (let i = pIndex; i < PARTICLE_COUNT; i++)"
BackgroundLoop(i, n, buf) == WriteBlock(buf, i, Max(0, n - i), "background")

BackgroundFromFlower(pIndex, flower) == flower

\* the first index of the background loop
BackgroundStart(pIndex, flower) == pIndex

generateLotus(flower, n) ==
    LET pod == PodLoop(NewBuffers(n), 0)
        totalPetalParticles == flower - pod.pIndex
        particlesPerLayer == totalPetalParticles \div Len(layers)
        pet == LayersLoop(1, particlesPerLayer, pod.buf, pod.pIndex, flower)
    IN [buf |-> BackgroundLoop(BackgroundStart(pet.pIndex, flower), n, pet.buf),
        fillSteps |-> 0]

\* "if (i % 7 === 0)": the star field, else the spiral arms
generateGalaxy(n) ==
    [buf |-> [reg |-> [k \in 1 .. n |-> IF (k - 1) % 7 = 0 THEN "stars" ELSE "arms"],
              outside |-> {}],
     fillSteps |-> 0]

\* the loops of the outer ring and of the hexagram: count calls of addP, each
\* writing the next index if pIndex < PARTICLE_COUNT and nothing otherwise
AddLoop(count, region, buf, pIndex, n) ==
    LET written == Max(0, Min(count, n - pIndex))
    IN [buf |-> WriteBlock(buf, pIndex, written, region), pIndex |-> pIndex + written]

\* the random draw of rune iteration i: whether Math.sin(theta * 32) > 0.0
RuneDraws == { "all", "none", "even", "last" }

RuneHit(draw, i, count) ==
    CASE draw = "all" -> TRUE
      [] draw = "none" -> FALSE
      [] draw = "even" -> i % 2 = 0
      [] OTHER -> i = count - 1

\* the rune ring: a draw that misses writes dust and gives the slot back ("addP(...);
\* pIndex--"); addP is inlined, PARTICLE_COUNT being the length of the buffers
RECURSIVE RuneLoop(_, _, _, _, _, _)
RuneLoop(i, count, draw, buf, pIndex, n) ==
    IF i >= count THEN [buf |-> buf, pIndex |-> pIndex]
    ELSE IF pIndex >= Len(buf.reg)
         THEN RuneLoop(i + 1, count, draw, buf,
                       IF RuneHit(draw, i, count) THEN pIndex ELSE pIndex - 1, n)
         ELSE IF RuneHit(draw, i, count)
              THEN RuneLoop(i + 1, count, draw, WriteAt(buf, pIndex, "runes"), pIndex + 1, n)
              ELSE RuneLoop(i + 1, count, draw, WriteAt(buf, pIndex, "dust"), pIndex, n)

\* "while (pIndex < PARTICLE_COUNT)": the centre, one call of addP and one index
\* per iteration
CentreLoop(buf, pIndex, n) ==
    LET steps == Max(0, n - pIndex)
    IN [buf |-> WriteBlock(buf, pIndex, steps, "centre"), fillSteps |-> steps]

countRing(n) == (n * 35) \div 100

countStar(n) == (n * 25) \div 100

countRunes(n) == (n * 20) \div 100

generateMagicShield(n, draw) ==
    LET ring == AddLoop(countRing(n), "ring", NewBuffers(n), 0, n)
        star == AddLoop(countStar(n), "hexagram", ring.buf, ring.pIndex, n)
        runes == RuneLoop(0, countRunes(n), draw, star.buf, star.pIndex, n)
    IN CentreLoop(runes.buf, runes.pIndex, n)

----------------------------------------------------------------------------
\* Transient slot allocator

WrapPtrToZero(ptr) == IF ptr >= PARTICLE_COUNT THEN 0 ELSE ptr

WrapPtrLate(ptr) == IF ptr > PARTICLE_COUNT THEN FIREWORK_PARTICLES_START ELSE ptr

WrapPtr(ptr) == IF ptr >= PARTICLE_COUNT THEN FIREWORK_PARTICLES_START ELSE ptr

RECURSIVE AllocLoop(_, _, _)
AllocLoop(n, ptr, indices) ==
    IF n = 0 THEN [indices |-> indices, cursor |-> ptr]
    ELSE AllocLoop(n - 1, WrapPtr(ptr + 1), Append(indices, ptr))

allocateParticlesKeepCursor(cursor, count) ==
    [AllocLoop(count, cursor, << >>) EXCEPT !.cursor = cursor]

allocateParticles(cursor, count) == AllocLoop(count, cursor, << >>)

----------------------------------------------------------------------------
\* The program state as one record, so that the steps of a handler compose

S == [ BG_COUNT |-> BG_COUNT, timeNow |-> timeNow, frame |-> frame,
       videoTime |-> videoTime, lastVideoTime |-> lastVideoTime,
       magicModeDebounce |-> magicModeDebounce, isMagicMode |-> isMagicMode,
       isGalaxyMode |-> isGalaxyMode, galaxyTransition |-> galaxyTransition,
       magicTransition |-> magicTransition, handFactor |-> handFactor,
       rotation |-> rotation, prevLeftHand |-> prevLeftHand, fireworks |-> fireworks,
       lastFireworkTime |-> lastFireworkTime, fireworkCursor |-> fireworkCursor,
       curr |-> curr, cols |-> cols, drifts |-> drifts, mouseWorldPos |-> mouseWorldPos,
       pointer |-> pointer, shapes |-> shapes, obs |-> obs ]

SharedLotus == { "lotusPos" }

\* the shape position buffers that share their storage with the current-position
\* buffer: none, since currentPositionsRef is bound to new Float32Array(
\* lotusData.positions), a copy
SharedWithCurrent == {}

\* the shape buffers after a handler that leaves the state t: a buffer sharing its
\* storage with the current positions holds whatever was written there
Stored(t) ==
    [b \in DOMAIN t.shapes |-> IF b \in SharedWithCurrent THEN t.curr ELSE t.shapes[b]]

Becomes(t) ==
    /\ BG_COUNT' = t.BG_COUNT
    /\ timeNow' = t.timeNow
    /\ frame' = t.frame
    /\ videoTime' = t.videoTime
    /\ lastVideoTime' = t.lastVideoTime
    /\ magicModeDebounce' = t.magicModeDebounce
    /\ isMagicMode' = t.isMagicMode
    /\ isGalaxyMode' = t.isGalaxyMode
    /\ galaxyTransition' = t.galaxyTransition
    /\ magicTransition' = t.magicTransition
    /\ handFactor' = t.handFactor
    /\ rotation' = t.rotation
    /\ prevLeftHand' = t.prevLeftHand
    /\ fireworks' = t.fireworks
    /\ lastFireworkTime' = t.lastFireworkTime
    /\ fireworkCursor' = t.fireworkCursor
    /\ curr' = t.curr
    /\ cols' = t.cols
    /\ drifts' = t.drifts
    /\ mouseWorldPos' = t.mouseWorldPos
    /\ pointer' = t.pointer
    /\ shapes' = Stored(t)
    /\ obs' = t.obs

----------------------------------------------------------------------------
\* spawnFirework

Vec(x, y, z) == << x, y, z >>

White == Vec(1000, 1000, 1000)

Black == Vec(0, 0, 0)

\* the inner loop of spawnFirework: up to TRAIL_LEN trail indices for one spark
RECURSIVE TrailLoop(_, _, _, _)
TrailLoop(t, idxPtr, indices, trail) ==
    IF t >= TRAIL_LEN THEN [trailIndices |-> trail, idxPtr |-> idxPtr]
    ELSE IF idxPtr < Len(indices)
         THEN TrailLoop(t + 1, idxPtr + 1, indices, Append(trail, indices[idxPtr + 1]))
         ELSE TrailLoop(t + 1, idxPtr, indices, trail)

\* "Init physics" of one spark: the head first, then the trail
InitSpark(s, spark, position, vel) ==
    LET tr == Range(spark.trailIndices)
    IN [s EXCEPT
          !.curr   = [i \in DOMAIN s.curr |->
                        IF i = spark.headIdx \/ i \in tr THEN position ELSE s.curr[i]],
          !.drifts = [s.drifts EXCEPT ![spark.headIdx] = vel],
          !.cols   = [i \in DOMAIN s.cols |->
                        IF i \in tr THEN Black
                        ELSE IF i = spark.headIdx THEN White ELSE s.cols[i]]]

\* the loop over k of spawnFirework
RECURSIVE SparkLoop(_, _, _, _, _, _, _)
SparkLoop(k, idxPtr, indices, sparks, s, position, vels) ==
    IF k >= SPARK_CNT \/ idxPtr >= Len(indices) THEN [sparks |-> sparks, s |-> s]
    ELSE LET headIdx == indices[idxPtr + 1]
             tr == TrailLoop(0, idxPtr + 1, indices, << >>)
             spark == [headIdx |-> headIdx, trailIndices |-> tr.trailIndices]
         IN SparkLoop(k + 1, tr.idxPtr, indices, Append(sparks, spark),
                      InitSpark(s, spark, position, vels[k + 1]), position, vels)

TotalNeededOneShort == SPARK_CNT * (1 + TRAIL_LEN) - 1

totalNeeded == SPARK_CNT * (1 + TRAIL_LEN)

\* all indices a firework holds (heads and trails)
SparkIndices(spark) == {spark.headIdx} \cup Range(spark.trailIndices)

FireworkIndices(fw) == UNION { SparkIndices(fw.sparks[k]) : k \in 1 .. Len(fw.sparks) }

\* rnd: the random draws [vels, color]
spawnFirework(s, position, rnd) ==
    LET a == allocateParticles(s.fireworkCursor, totalNeeded)
        r == SparkLoop(0, 0, a.indices, << >>, s, position, rnd.vels)
    IN [r.s EXCEPT
          !.fireworks = Append(s.fireworks,
                               [id |-> s.timeNow, age |-> 0, color |-> rnd.color,
                                sparks |-> r.sparks]),
          !.fireworkCursor = a.cursor]

\* a spawn taking state s to state t, as observed (via: "click" or "pinch")
ObserveSpawn(s, t, position, via) ==
    [t EXCEPT
       !.obs.last = via,
       !.obs.spawns = Append(@, [via |-> via, frame |-> s.frame, time |-> s.timeNow,
                                 position |-> position,
                                 indices |-> allocateParticles(s.fireworkCursor,
                                                               totalNeeded).indices,
                                 cursorBefore |-> s.fireworkCursor,
                                 cursorAfter |-> t.fireworkCursor,
                                 prior |-> s.fireworks, after |-> t.fireworks,
                                 curr |-> t.curr])]

----------------------------------------------------------------------------
\* Pointer and raycast: the pointer is one of a few screen points; the ray from
\* the camera through it meets the plane Z = 0 at a world point.  The camera looks
\* down on the plane, so the ray through a point far enough below the view ("below")
\* leaves the plane behind and meets it nowhere

PointerStart == "start"

RayIntersect(p) ==
    CASE p = "a" -> [hit |-> TRUE, at |-> Vec(1000, 2000, 0)]
      [] p = "b" -> [hit |-> TRUE, at |-> Vec(-500, 400, 0)]
      [] p = "below" -> [hit |-> FALSE, at |-> Vec(0, 0, 0)]
      [] OTHER   -> [hit |-> TRUE, at |-> Vec(900000, 900000, 0)]

intersectPlaneOrigin(ray, target) == IF ray.hit THEN ray.at ELSE Vec(0, 0, 0)

\* ray.intersectPlane(plane, target): the value of target afterwards; target is
\* written only when the ray meets the plane
intersectPlane(ray, target) == IF ray.hit THEN ray.at ELSE target

handleMouseMove(s, p) ==
    [s EXCEPT !.pointer = p, !.obs.moves = @ + 1, !.obs.last = "move"]

handleClick(s, rnd) ==
    LET ray == RayIntersect(s.pointer)
        target == intersectPlane(ray, Vec(0, 0, 0))
    IN ObserveSpawn(s, spawnFirework(s, target, rnd), target, "click")

----------------------------------------------------------------------------
\* animate, part 1: SENSOR LOGIC
\*
\* A sensor frame `in` is what detectForVideo and the landmark geometry yield:
\*   ready, advance       the detector and video are ready; the video time moved
\*   hasR, hasL           a hand labelled "Right" / "Left" was found
\*   swordR, swordL       isSwordFinger of each hand
\*   crossed              |dot| < 0.85 of the two index directions
\*   wrists, pinkies      wrist-to-wrist and pinky-tip distances
\*   rDist, rIdx          right thumb-index distance, right index tip (x, y)
\*   lDist, lRef          left thumb-index distance, left landmark 9 (x, y)

magicGestureDetected(in) ==
    in.hasR /\ in.hasL /\ in.swordR /\ in.swordL /\ in.crossed /\ in.wrists < 350

DebounceNoCap(d, detected) == IF detected THEN d + 1 ELSE Max(d - 1, 0)

DebounceStep(d, detected) ==
    IF detected THEN Min(d + 1, DEBOUNCE_CAP) ELSE Max(d - 1, 0)

MagicNoHysteresis(d, magic) == d > MAGIC_ON

MagicLowThreshold(d, magic) ==
    IF d > MAGIC_OFF THEN TRUE ELSE IF d < MAGIC_OFF THEN FALSE ELSE magic

MagicNarrowBand(d, magic) ==
    IF d > MAGIC_ON THEN TRUE ELSE IF d < MAGIC_ON - 1 THEN FALSE ELSE magic

MagicAfterDebounce(d, magic) ==
    IF d > MAGIC_ON THEN TRUE ELSE IF d < MAGIC_OFF THEN FALSE ELSE magic

GalaxyKeeps(d, galaxy) == galaxy

GalaxyAfterDebounce(d, galaxy) == IF d > MAGIC_ON THEN FALSE ELSE galaxy

rightHandPos(in) == Vec((500 - in.rIdx[1]) * 5, (500 - in.rIdx[2]) * 4 + 1000, 0)

PinchFiresAtCooldown(in, magic, now, last) ==
    in.hasR /\ ~magic /\ in.rDist < PINCH_DIST /\ now - last >= PINCH_COOLDOWN

PinchFiresAnyMode(in, magic, now, last) ==
    in.hasR /\ in.rDist < PINCH_DIST /\ now - last > PINCH_COOLDOWN

PinchFires(in, magic, now, last) ==
    in.hasR /\ ~magic /\ in.rDist < PINCH_DIST /\ now - last > PINCH_COOLDOWN

BloomTarget(dist) == Max(0, Min(2500, (dist - 30) * 8))

HandFactorNoDecay(in, magic, hf) ==
    IF in.hasR /\ ~magic THEN hf + ((BloomTarget(in.rDist) - hf) * 2) \div 10 ELSE hf

HandFactorStep(in, magic, hf) ==
    IF in.hasR /\ ~magic THEN hf + ((BloomTarget(in.rDist) - hf) * 2) \div 10
    ELSE IF ~in.hasR THEN hf + ((0 - hf) * 5) \div 100
    ELSE hf

NoHand == << >>

LeftHandStep(in, magic, rot, prev) ==
    IF in.hasL /\ ~magic
    THEN IF in.lDist > 80
         THEN [rotation |-> IF prev # NoHand
                            THEN [x |-> rot.x - (in.lRef[2] - prev[2]) * 5,
                                  y |-> rot.y - (in.lRef[1] - prev[1]) * 7]
                            ELSE rot,
               prevLeftHand |-> in.lRef]
         ELSE [rotation |-> rot, prevLeftHand |-> NoHand]
    ELSE [rotation |-> rot, prevLeftHand |-> prev]

handsTogether(in) == in.wrists < 250 /\ in.pinkies < 80

GalaxySticky(in, magic, galaxy) ==
    IF in.hasL /\ in.hasR /\ ~magic THEN handsTogether(in) ELSE galaxy

GalaxyStep(in, magic, galaxy) ==
    IF in.hasL /\ in.hasR /\ ~magic THEN handsTogether(in)
    ELSE IF ~magic THEN FALSE
    ELSE galaxy

\* a processed video frame in which the detector reports no hand
NoHands == [ready |-> TRUE, advance |-> TRUE, hasR |-> FALSE, hasL |-> FALSE,
            swordR |-> FALSE, swordL |-> FALSE, crossed |-> FALSE,
            wrists |-> 1000, pinkies |-> 1000,
            rDist |-> 0, rIdx |-> << 500, 500 >>, lDist |-> 0, lRef |-> << 500, 500 >>]

\* what the sensor step of a processed frame is observed to do
ObsSensor(s, detected, magicAfter, vt) ==
    LET o == s.obs
        n == o.processed + 1
        flipped == magicAfter # s.isMagicMode
        h == Append(o.hist, [detected |-> detected, flipped |-> flipped,
                             d |-> DebounceStep(s.magicModeDebounce, detected)])
    IN [o EXCEPT
          !.sensor = [processed |-> TRUE, detected |-> detected,
                      before |-> s.magicModeDebounce, magicBefore |-> s.isMagicMode],
          !.processed = n,
          !.hist = IF Len(h) > 3 THEN Tail(h) ELSE h,
          !.gaps = IF flipped /\ o.lastFlip # 0 THEN @ \cup {n - o.lastFlip} ELSE @,
          !.lastFlip = IF flipped THEN n ELSE @,
          !.flips = IF o.hist # << >> /\ o.hist[Len(o.hist)].detected # detected
                    THEN @ + 1 ELSE @,
          !.left = [open |-> o.input.hasL /\ ~magicAfter /\ o.input.lDist > 80,
                    ref |-> o.input.lRef,
                    prevOpen |-> o.left.open, prevRef |-> o.left.ref],
          !.stamps = Append(@, vt),
          !.idle = IF s.obs.input.hasR \/ s.obs.input.hasL THEN 0 ELSE @ + 1,
          !.order = Append(@, "state machine"),
          !.last = "sensor"]

ProcessedAlways(in, currentTime, last) == in.ready

\* the frame is processed: detector and video ready, and a new video time
Processed(in, currentTime, last) == in.ready /\ currentTime # last

SensorStep(s, in, rnd) ==
    LET now == s.timeNow + FrameDt
        vt == IF in.advance THEN s.videoTime + 1 ELSE s.videoTime
        s0 == [s EXCEPT !.timeNow = now, !.videoTime = vt,
                        !.obs.input = in,
                        !.obs.changes = IF s.frame # 0 /\ in # s.obs.input THEN @ + 1 ELSE @,
                        !.obs.order = << "gesture" >>,
                        !.obs.pre = [d |-> s.magicModeDebounce, magic |-> s.isMagicMode,
                                     galaxy |-> s.isGalaxyMode, hf |-> s.handFactor,
                                     rotation |-> s.rotation,
                                     prevLeftHand |-> s.prevLeftHand,
                                     lastFireworkTime |-> s.lastFireworkTime,
                                     lastVideoTime |-> s.lastVideoTime,
                                     gT |-> s.galaxyTransition, mT |-> s.magicTransition,
                                     spawns |-> Len(s.obs.spawns),
                                     drifts |-> s.drifts]]
    IN IF Processed(in, vt, s.lastVideoTime)
       THEN LET detected == magicGestureDetected(in)
                d == DebounceStep(s.magicModeDebounce, detected)
                magic == MagicAfterDebounce(d, s.isMagicMode)
                left == LeftHandStep(in, magic, s.rotation, s.prevLeftHand)
                s1 == [s0 EXCEPT
                         !.lastVideoTime = vt,
                         !.magicModeDebounce = d,
                         !.isMagicMode = magic,
                         !.isGalaxyMode = GalaxyStep(in, magic,
                                                     GalaxyAfterDebounce(d, s.isGalaxyMode)),
                         !.handFactor = HandFactorStep(in, magic, s.handFactor),
                         !.rotation = left.rotation,
                         !.prevLeftHand = left.prevLeftHand,
                         !.obs = ObsSensor(s0, detected, magic, vt)]
            IN IF PinchFires(in, magic, now, s.lastFireworkTime)
               THEN LET s2 == [s1 EXCEPT !.lastFireworkTime = now]
                    IN ObserveSpawn(s2, spawnFirework(s2, rightHandPos(in), rnd),
                                    rightHandPos(in), "pinch")
               ELSE s1
       ELSE [s0 EXCEPT !.obs.sensor = [processed |-> FALSE, detected |-> FALSE,
                                       before |-> s.magicModeDebounce,
                                       magicBefore |-> s.isMagicMode],
                       !.obs.last = "stale"]

----------------------------------------------------------------------------
\* animate, part 2: mode transitions, raycast, FIREWORKS UPDATE

Mul(x, f) == (x * f) \div 1000

Add3(a, b) == Vec(a[1] + b[1], a[2] + b[2], a[3] + b[3])

Scale3(a, f) == Vec(Mul(a[1], f), Mul(a[2], f), Mul(a[3], f))

LerpAverage(a, b, w) == (a + b) \div 2

Lerp(a, b, w) == a + Mul(b - a, w)

Lerp3(a, b, w) == Vec(Lerp(a[1], b[1], w), Lerp(a[2], b[2], w), Lerp(a[3], b[3], w))

SnapStep(cur, on, rate) == IF on THEN 1000 ELSE 0

SmoothStep(cur, on, rate) == cur + Mul((IF on THEN 1000 ELSE 0) - cur, rate)

GRAVITY == 4

DRAG == 960

lifeRatio(age) == Max(0, 1000 - (age * 1000) \div LIFE_FRAMES)

\* "Propagate Trail (Snake)": t runs from the last trail index down to 1
RECURSIVE TrailShift(_, _, _, _, _)
TrailShift(t, trail, b, color, life) ==
    IF t <= 0 THEN b
    ELSE LET currT == trail[t + 1]
             prevT == trail[t]
             intensity == Mul(Mul(life, 1000 - (t * 1000) \div Len(trail)), 800)
         IN TrailShift(t - 1, trail,
                       [b EXCEPT !.curr[currT] = b.curr[prevT],
                                 !.cols[currT] = Scale3(color, intensity)],
                       color, life)

UpdateSparkTrailFirst(b, spark, color, age) ==
    LET headI == spark.headIdx
        trail == spark.trailIndices
        prevH == b.curr[headI]
        d0 == b.drifts[headI]
        d1 == Vec(Mul(d0[1], DRAG), Mul(d0[2] - GRAVITY, DRAG), Mul(d0[3], DRAG))
        life == lifeRatio(age)
        b1 == [b EXCEPT !.active = @ \cup SparkIndices(spark),
                        !.drifts[headI] = d1,
                        !.curr[headI] = Add3(prevH, d1),
                        !.cols[headI] = color]
        b2 == IF Len(trail) > 0
              THEN [b1 EXCEPT !.curr[trail[1]] = prevH,
                              !.cols[trail[1]] = Scale3(color, Mul(life, 900))]
              ELSE b1
    IN TrailShift(Len(trail) - 1, trail, b2, color, life)

\* one spark of the fireworks update; b: [curr, cols, drifts, active]
UpdateSpark(b, spark, color, age) ==
    LET headI == spark.headIdx
        trail == spark.trailIndices
        prevH == b.curr[headI]
        d0 == b.drifts[headI]
        d1 == Vec(Mul(d0[1], DRAG), Mul(d0[2] - GRAVITY, DRAG), Mul(d0[3], DRAG))
        life == lifeRatio(age)
        b1 == [b EXCEPT !.active = @ \cup SparkIndices(spark),
                        !.drifts[headI] = d1,
                        !.curr[headI] = Add3(prevH, d1),
                        !.cols[headI] = color]
        b2 == TrailShift(Len(trail) - 1, trail, b1, color, life)
    IN IF Len(trail) > 0
       THEN [b2 EXCEPT !.curr[trail[1]] = prevH,
                       !.cols[trail[1]] = Scale3(color, Mul(life, 900))]
       ELSE b2

RECURSIVE SparksUpdate(_, _, _, _)
SparksUpdate(sparks, b, color, age) ==
    IF sparks = << >> THEN b
    ELSE SparksUpdate(Tail(sparks), UpdateSpark(b, Head(sparks), color, age), color, age)

KeepOneMore(age) == age <= LIFE_FRAMES

Keep(age) == age < LIFE_FRAMES

\* fireworksRef.current.filter(fw => { fw.age++; ...; return fw.age < 90 })
RECURSIVE FireworksFilter(_, _, _)
FireworksFilter(fws, b, kept) ==
    IF fws = << >> THEN [fireworks |-> kept, b |-> b]
    ELSE LET fw == Head(fws)
             age == fw.age + 1
             b1 == SparksUpdate(fw.sparks, b, fw.color, age)
         IN FireworksFilter(Tail(fws), b1,
                            IF Keep(age) THEN Append(kept, [fw EXCEPT !.age = age])
                            ELSE kept)

\* the result carries the set activeFireworkIndices for the particle loop
FireworksStep(s) ==
    LET ray == RayIntersect(s.pointer)
        r == FireworksFilter(s.fireworks,
                             [curr |-> s.curr, cols |-> s.cols, drifts |-> s.drifts,
                              active |-> {}],
                             << >>)
    IN [ s |-> [s EXCEPT
                  !.galaxyTransition = SmoothStep(@, s.isGalaxyMode, 80),
                  !.magicTransition = SmoothStep(@, s.isMagicMode, 100),
                  !.mouseWorldPos = intersectPlane(ray, @),
                  !.obs.hover = [hit |-> ray.hit, prevEnd |-> s.obs.hover.end,
                                 end |-> intersectPlane(ray, s.mouseWorldPos)],
                  !.fireworks = r.fireworks,
                  !.curr = r.b.curr,
                  !.cols = r.b.cols,
                  !.drifts = r.b.drifts,
                  !.obs.order = Append(@, "burst update"),
                  !.obs.burst = [live |-> s.fireworks, active |-> r.b.active,
                                 currBefore |-> s.curr, curr |-> r.b.curr,
                                 cols |-> r.b.cols,
                                 ended |-> SelectSeq(s.fireworks,
                                                     LAMBDA fw : ~Keep(fw.age + 1)),
                                 endedBefore |-> s.obs.burst.ended]],
         activeFireworkIndices |-> r.b.active ]

----------------------------------------------------------------------------
\* animate, part 3: the particle loop (integrator) and the hand-off to the renderer

\* sine and cosine of an angle in 0.001 rad, in 0.001: a piecewise-linear wave of
\* the same period, sign and extrema
Sin(x) ==
    LET y == x % 6283
    IN IF y < 1571 THEN (y * 1000) \div 1571
       ELSE IF y < 4712 THEN ((3142 - y) * 1000) \div 1571
       ELSE ((y - 6283) * 1000) \div 1571

Cos(x) == Sin(x + 1571)

Rotate(m, angle) ==
    Vec(Mul(m[1], Cos(angle)) - Mul(m[2], Sin(angle)),
        Mul(m[1], Sin(angle)) + Mul(m[2], Cos(angle)), m[3])

\* "Magic Shield Transform": the spun magic target of a particle
MagicTarget(m, mT, now) ==
    IF mT > 10
    THEN LET d2 == m[1] * m[1] + m[2] * m[2]
         IN IF d2 > 1900 * 1900 THEN Rotate(m, now \div 2)
            ELSE IF d2 > 1300 * 1300 /\ d2 < 1600 * 1600 THEN Rotate(m, 0 - now)
            ELSE IF d2 < 1000 * 1000 THEN Rotate(m, now * 2)
            ELSE m
    ELSE m

\* the blended target position of particle i; jit is the draw of Math.random() - 0.5
BlendTarget(s, i, jit) ==
    LET gT == s.galaxyTransition
        mT == s.magicTransition
        t0 == Lerp3(s.shapes.lotusPos[i], s.shapes.galPos[i], gT)
        bloomScale == 1000 + s.handFactor * 2
        bloomSpread == Mul(s.handFactor, 2500)
        influence == 1000 - gT
        scale == 1000 + Mul(bloomScale - 1000, influence)
        spread == Mul(bloomSpread, influence)
        j == Mul(Mul(jit, spread), 500)
        t1 == IF ~s.isGalaxyMode /\ s.handFactor > 50 /\ mT < 100
              THEN Vec(Mul(t0[1], scale) + j, Mul(t0[2], scale) + j, Mul(t0[3], scale) + j)
              ELSE t0
        phase == s.drifts[i][1]
        amp == s.drifts[i][2]
        w == (s.timeNow * 8) \div 10
        t2 == IF ~s.isGalaxyMode /\ s.handFactor < 100 /\ mT < 100
              THEN Vec(t1[1] + Mul(Sin(w + phase), amp),
                       t1[2] + Mul(Cos(w + phase \div 2), amp),
                       t1[3] + Mul(Sin((w * 12) \div 10 + phase), amp))
              ELSE t1
    IN Lerp3(t2, MagicTarget(s.shapes.magPos[i], mT, s.timeNow), mT)

\* the blended colour of particle i before the hover highlight
BlendColour(s, i) ==
    LET gT == s.galaxyTransition
        mT == s.magicTransition
        now == s.timeNow
        c0 == Lerp3(s.shapes.lotusCol[i], s.shapes.galCol[i], gT)
        twinkle == 800 + Mul(500, Sin((now * (30 + (i % 10) * 5)) \div 10 + i * 100))
        c1 == IF gT > 500 /\ i % 7 = 0 THEN Scale3(c0, twinkle) ELSE c0
        c2 == Lerp3(c1, s.shapes.magCol[i], mT)
        pulse == Mul(Sin(now * 3), 200) + 200
        shimmer == Mul(Sin(now * 10 + i * 3000), 100)
        totalGlow == Mul(pulse + shimmer, mT)
    IN IF mT > 10
       THEN Vec(c2[1] + totalGlow, c2[2] + Mul(totalGlow, 800), c2[3] + Mul(totalGlow, 200))
       ELSE c2

\* one iteration of the particle loop for a particle that is not skipped
IntegrateParticle(s, i, jit) ==
    LET t == BlendTarget(s, i, jit)
        damping == 50 + Mul(s.magicTransition, 100)
        p == Vec(s.curr[i][1] + Mul(t[1] - s.curr[i][1], damping),
                 s.curr[i][2] + Mul(t[2] - s.curr[i][2], damping),
                 s.curr[i][3] + Mul(t[3] - s.curr[i][3], damping))
        c == BlendColour(s, i)
        dx == p[1] - s.mouseWorldPos[1]
        dy == p[2] - s.mouseWorldPos[2]
        dz == p[3] - s.mouseWorldPos[3]
        near == /\ dx > -448 /\ dx < 448 /\ dy > -448 /\ dy < 448 /\ dz > -448 /\ dz < 448
                /\ dx * dx + dy * dy + dz * dz < 200000
        k == Mul(jit, 30)
    IN [ pos |-> IF near THEN Vec(p[1] + k, p[2] + k, p[3] + k) ELSE p,
         col |-> IF near THEN Vec(Min(1000, c[1] + 400), Min(1000, c[2] + 400),
                                  Min(1000, c[3] + 400))
                 ELSE c ]

\* "if (activeFireworkIndices.has(i)) continue"
SkipsNothing(active, i) == FALSE

SkipsReserve(active, i) == i \in active \/ i >= FIREWORK_PARTICLES_START

Skips(active, i) == i \in active

ParticlesStep(s, active, jit) ==
    LET r == [i \in DOMAIN s.curr |->
                IF Skips(active, i) THEN [pos |-> s.curr[i], col |-> s.cols[i]]
                ELSE IntegrateParticle(s, i, jit)]
    IN [s EXCEPT !.curr = [i \in DOMAIN s.curr |-> r[i].pos],
                 !.cols = [i \in DOMAIN s.cols |-> r[i].col],
                 !.obs.order = Append(@, "integrator"),
                 !.obs.integ = [currBefore |-> s.curr, colsBefore |-> s.cols]]

\* renderer.render(scene, camera): the buffers are handed to the renderer
RenderStep(s) == [s EXCEPT !.frame = @ + 1, !.obs.order = Append(@, "render")]

\* one call of the frame callback
animate(s, in, rnd, jit) ==
    LET s1 == SensorStep(s, in, rnd)
        f == FireworksStep(s1)
    IN RenderStep(ParticlesStep(f.s, f.activeFireworkIndices, jit))

----------------------------------------------------------------------------
\* The state after construction (the init effect has run, no frame yet)

OffScene == Vec(9999000, 9999000, 9999000)

Constructed ==
    /\ timeNow = StartTime
    /\ frame = 0
    /\ videoTime = 0
    /\ lastVideoTime = -1
    /\ magicModeDebounce = 0
    /\ isMagicMode = FALSE
    /\ isGalaxyMode = FALSE
    /\ galaxyTransition = 0
    /\ magicTransition = 0
    /\ handFactor = 0
    /\ rotation = [x |-> 0, y |-> 0]
    /\ prevLeftHand = NoHand
    /\ fireworks = << >>
    /\ lastFireworkTime = 0
    /\ fireworkCursor = FIREWORK_PARTICLES_START
    /\ shapes = [lotusPos |-> [i \in Indices |-> sampleLotusPos(i)],
                 lotusCol |-> [i \in Indices |-> sampleLotusCol(i)],
                 galPos   |-> [i \in Indices |-> sampleGalPos(i)],
                 galCol   |-> [i \in Indices |-> sampleGalCol(i)],
                 magPos   |-> [i \in Indices |-> sampleMagPos(i)],
                 magCol   |-> [i \in Indices |-> sampleMagCol(i)]]
    /\ curr = [i \in Indices |-> sampleLotusPos(i)]
    /\ cols = [i \in Indices |-> sampleLotusCol(i)]
    /\ drifts = [i \in Indices |-> sampleLotusDrift(i)]
    /\ mouseWorldPos = OffScene
    /\ pointer = PointerStart
    /\ obs = [spawns |-> << >>, processed |-> 0, hist |-> << >>, gaps |-> {},
              lastFlip |-> 0, flips |-> 0, moves |-> 0, last |-> "init",
              input |-> NoHands, order |-> << >>, stamps |-> << >>, idle |-> 0,
              changes |-> 0, blend |-> << >>,
              pre |-> [d |-> 0, magic |-> FALSE, galaxy |-> FALSE, hf |-> 0,
                       rotation |-> [x |-> 0, y |-> 0], prevLeftHand |-> NoHand,
                       lastFireworkTime |-> 0, lastVideoTime |-> -1, gT |-> 0, mT |-> 0,
                       spawns |-> 0, drifts |-> << >>],
              integ |-> [currBefore |-> << >>, colsBefore |-> << >>],
              hover |-> [hit |-> TRUE, prevEnd |-> OffScene, end |-> OffScene],
              left |-> [open |-> FALSE, ref |-> << 500, 500 >>,
                        prevOpen |-> FALSE, prevRef |-> << 500, 500 >>],
              colour |-> [gT |-> 0, mT |-> 0, now |-> 0, i |-> 0, col |-> Black],
              gen |-> [name |-> "none", flower |-> 0, n |-> 0,
                       buf |-> [reg |-> << >>, outside |-> {}], fillSteps |-> 0],
              sensor |-> [processed |-> FALSE, detected |-> FALSE, before |-> 0,
                          magicBefore |-> FALSE],
              burst |-> [live |-> << >>, active |-> {}, currBefore |-> << >>,
                         curr |-> << >>, cols |-> << >>, ended |-> << >>,
                         endedBefore |-> << >>]]

Init == BG_COUNT \in BgCounts /\ Constructed

\* the handlers as actions
MouseMove(p) == Becomes(handleMouseMove(S, p))

Click(rnd) == Becomes(handleClick(S, rnd))

Animate(in, rnd, jit) == Becomes(animate(S, in, rnd, jit))

\* the position blend of the particle loop applied to particle i on its own, with the
\* weights, the bloom factor and the time given
Blend(gT, mT, hf, galaxy, now, i, jit) ==
    LET t == [S EXCEPT !.galaxyTransition = gT, !.magicTransition = mT,
                       !.handFactor = hf, !.isGalaxyMode = galaxy, !.timeNow = now]
    IN Becomes([S EXCEPT !.obs.last = "blend",
                         !.obs.blend = [gT |-> gT, mT |-> mT, hf |-> hf, i |-> i,
                                        target |-> BlendTarget(t, i, jit),
                                        magic |-> MagicTarget(t.shapes.magPos[i], mT, now),
                                        lotus |-> t.shapes.lotusPos[i],
                                        galaxy |-> t.shapes.galPos[i]]])

\* the colour blend of the particle loop applied to particle i on its own, with the
\* weights and the time given
Colour(gT, mT, now, i) ==
    LET t == [S EXCEPT !.galaxyTransition = gT, !.magicTransition = mT, !.timeNow = now]
    IN Becomes([S EXCEPT !.obs.last = "colour",
                         !.obs.colour = [gT |-> gT, mT |-> mT, now |-> now, i |-> i,
                                         col |-> BlendColour(t, i)]])

\* one run of a shape generator for the sizes and the draws given
Generate(name, flower, bg, draw) ==
    LET n == flower + bg
        g == CASE name = "lotus" -> generateLotus(flower, n)
               [] name = "galaxy" -> generateGalaxy(n)
               [] OTHER -> generateMagicShield(n, draw)
    IN Becomes([S EXCEPT !.obs.last = "generate",
                         !.obs.gen = [name |-> name, flower |-> flower, n |-> n,
                                      buf |-> g.buf, fillSteps |-> g.fillSteps]])

----------------------------------------------------------------------------
\* Sensor frames

\* the video time did not move: the frame is not processed
Stale == [NoHands EXCEPT !.advance = FALSE]

\* both hands in the sword pose, crossed, wrists close
MagicPose == [NoHands EXCEPT !.hasR = TRUE, !.hasL = TRUE, !.swordR = TRUE,
                             !.swordL = TRUE, !.crossed = TRUE, !.wrists = 300,
                             !.pinkies = 300, !.rDist = 100, !.lDist = 60]

\* right hand pinching at a point right of and above the centre
Pinch == [NoHands EXCEPT !.hasR = TRUE, !.rDist = 30, !.rIdx = << 300, 400 >>]

\* both hands, palms merged and pinkies touching, fingers not in the sword pose
Together == [NoHands EXCEPT !.hasR = TRUE, !.hasL = TRUE, !.wrists = 200,
                            !.pinkies = 50, !.rDist = 100, !.lDist = 60]

\* the sword pose held with palms merged and pinkies touching, left thumb and index
\* apart
MagicTogether == [MagicPose EXCEPT !.wrists = 200, !.pinkies = 50, !.lDist = 100]

\* right hand wide open, left hand open at one place
Wide == [NoHands EXCEPT !.hasR = TRUE, !.hasL = TRUE, !.rDist = 400, !.lDist = 100,
                        !.lRef = << 400, 450 >>]

\* left hand alone, open, at another place
Swipe == [NoHands EXCEPT !.hasL = TRUE, !.lDist = 100, !.lRef = << 420, 440 >>]

\* right hand alone, thumb and index just further apart than a pinch
Faint == [NoHands EXCEPT !.hasR = TRUE, !.rDist = 41]

\* hands in view, but the video time did not move
StalePinch == [Pinch EXCEPT !.advance = FALSE, !.hasL = TRUE, !.lDist = 100,
                            !.lRef = << 450, 400 >>]

\* hands in view, but the detector or the video is not ready
NotReady == [Together EXCEPT !.ready = FALSE, !.rDist = 30]

\* right hand pinching, left hand open at another place
PinchSwipe == [Pinch EXCEPT !.hasL = TRUE, !.lDist = 100, !.lRef = << 420, 440 >>]

\* left hand alone, thumb and index closer than an open hand
Fist == [NoHands EXCEPT !.hasL = TRUE, !.lDist = 60, !.lRef = << 450, 400 >>]

Gold == Vec(1000, 843, 200)

Draws == { [vels |-> [k \in 1 .. SPARK_CNT |-> Vec(30 + k, 40, 0)], color |-> Gold] }

Jitters == { 250 }

ClickPointers == { "a", "b" }

----------------------------------------------------------------------------
\* Specification of the burst subsystem: clicks and pinches early in the run (and
\* once more after every burst has aged out), then frames until the bursts are gone

BurstFrames == SpawnWindow + LIFE_FRAMES + TailFrames

SpawnAllowed ==
    /\ Len(obs.spawns) < MaxSpawns
    /\ \/ frame < SpawnWindow
       \/ fireworks = << >> /\ obs.spawns # << >>

MoveAllowed == frame = 0 /\ obs.moves < 1

SpawnsIfProcessed(in) == in.hasR /\ in.rDist < PINCH_DIST

NextBurst ==
    \/ \E p \in ClickPointers : MoveAllowed /\ MouseMove(p)
    \/ \E rnd \in Draws : SpawnAllowed /\ Click(rnd)
    \/ \E in \in {NoHands, Stale, Pinch}, rnd \in Draws, jit \in Jitters :
          /\ frame < BurstFrames
          /\ SpawnsIfProcessed(in) => SpawnAllowed
          /\ in = Stale => frame < SpawnWindow
          /\ Animate(in, rnd, jit)

SpecBurst == Init /\ [][NextBurst]_vars

\* Specification of the gesture state machine: one build, gesture frames that
\* change class at most MaxFlips times, no pointer events

InitMode == Init /\ BG_COUNT = SlotsPerBurst

FlipAllowed(in) ==
    IF obs.hist = << >> THEN TRUE
    ELSE IF obs.hist[Len(obs.hist)].detected = magicGestureDetected(in) THEN TRUE
    ELSE obs.flips < MaxFlips

NextMode ==
    \E in \in {NoHands, Stale, MagicPose}, rnd \in Draws, jit \in Jitters :
        /\ frame < ModeFrames
        /\ in = Stale => frame < SpawnWindow
        /\ Processed(in, IF in.advance THEN videoTime + 1 ELSE videoTime, lastVideoTime)
              => FlipAllowed(in)
        /\ Animate(in, rnd, jit)

SpecMode == InitMode /\ [][NextMode]_vars

\* Specification of a flickering classifier: the same build, every processed frame
\* free to hold the gesture or not, over a shorter run
NextFlicker ==
    \E in \in {NoHands, MagicPose}, rnd \in Draws, jit \in Jitters :
        /\ frame < FlickerFrames
        /\ Animate(in, rnd, jit)

SpecFlicker == InitMode /\ [][NextFlicker]_vars

\* Specification of the gesture inputs: frames of every kind, the kind changing at
\* most MaxChanges times
ChangeAllowed(in) == frame = 0 \/ in = obs.input \/ obs.changes < MaxChanges

NextGesture ==
    \E in \in {NoHands, MagicTogether, Together, Wide, Swipe, StalePinch, NotReady},
       rnd \in Draws, jit \in Jitters :
        /\ frame < GestureFrames
        /\ ChangeAllowed(in)
        /\ Animate(in, rnd, jit)

SpecGesture == InitMode /\ [][NextGesture]_vars

\* Specification of the hands leaving the view: gestures, then frames without hands
NextIdle ==
    \E in \in {NoHands, MagicPose, Together, Faint}, rnd \in Draws, jit \in Jitters :
        /\ frame < IdleFrames
        /\ ChangeAllowed(in)
        /\ Animate(in, rnd, jit)

SpecIdle == InitMode /\ [][NextIdle]_vars

\* Specification of the position blend alone: weights at both ends and in the middle
BlendLevels == {0, 500, 1000}

NextBlend ==
    \E gT \in BlendLevels, mT \in BlendLevels, hf \in {0, 1000}, galaxy \in BOOLEAN,
       now \in {StartTime, StartTime + 1000}, i \in Indices, jit \in Jitters :
        Blend(gT, mT, hf, galaxy, now, i, jit)

SpecBlend == InitMode /\ [][NextBlend]_vars

\* Specification of the colour blend alone: weights at both ends, in the middle, and
\* just above a tenth and above the middle
ColourLevels == BlendLevels \cup { 100, 600 }

NextColour ==
    \E gT \in ColourLevels, mT \in ColourLevels, now \in {StartTime, StartTime + 1000},
       i \in Indices :
        Colour(gT, mT, now, i)

SpecColour == InitMode /\ [][NextColour]_vars

\* Specification of the pointer: moves to points whose ray meets the plane and to one
\* whose ray does not, clicks, and frames without hands
Pointers == ClickPointers \cup { "below" }

NextPointer ==
    \/ \E p \in Pointers : obs.moves < MaxMoves /\ MouseMove(p)
    \/ \E rnd \in Draws : Len(obs.spawns) < MaxSpawns /\ Click(rnd)
    \/ \E rnd \in Draws, jit \in Jitters :
          frame < PointerFrames /\ Animate(NoHands, rnd, jit)

SpecPointer == InitMode /\ [][NextPointer]_vars

\* Specification of the shape generators: each generator run for several sizes, one
\* of them smaller than the pod, and several outcomes of the rune draws
GenFlowerCounts == { 4, 110, 117, 123, 131, 140 }

GenBgCounts == { 3, 30, 33, 36 }

NextGen ==
    \E name \in {"lotus", "galaxy", "magic"}, flower \in GenFlowerCounts,
       bg \in GenBgCounts, draw \in RuneDraws :
        /\ name # "magic" => draw = "all"
        /\ Generate(name, flower, bg, draw)

SpecGen == InitMode /\ [][NextGen]_vars

\* Specification of the allocator: builds whose reserve holds one, two and three
\* bursts, exactly and with slots to spare, and spawns by click and by pinch
AllocBgCounts == { SlotsPerBurst + 1, 2 * SlotsPerBurst, 2 * SlotsPerBurst + 1,
                   3 * SlotsPerBurst }

InitAlloc == BG_COUNT \in AllocBgCounts /\ Constructed

NextAlloc ==
    \/ \E rnd \in Draws : Len(obs.spawns) < MaxAllocSpawns /\ Click(rnd)
    \/ \E in \in {NoHands, Pinch}, rnd \in Draws, jit \in Jitters :
          /\ frame < AllocFrames
          /\ SpawnsIfProcessed(in) => Len(obs.spawns) < MaxAllocSpawns
          /\ Animate(in, rnd, jit)

SpecAlloc == InitAlloc /\ [][NextAlloc]_vars

\* Specification of the two hands: the magic pose held and released, the right hand
\* pinching, the left hand open at several places, closed, and out of view
NextHands ==
    \E in \in {NoHands, MagicTogether, Wide, Swipe, PinchSwipe, Fist},
       rnd \in Draws, jit \in Jitters :
        /\ frame < HandsFrames
        /\ ChangeAllowed(in)
        /\ Animate(in, rnd, jit)

SpecHands == InitMode /\ [][NextHands]_vars

\* Specification of the pinch timer: frames with and without a pinching right hand,
\* processed or not, and clicks between them
ClickSpawns == SelectSeq(obs.spawns, LAMBDA sp : sp.via = "click")

NextPinch ==
    \/ \E rnd \in Draws : Len(ClickSpawns) < MaxClicks /\ Click(rnd)
    \/ \E in \in {NoHands, Stale, Pinch, StalePinch}, rnd \in Draws, jit \in Jitters :
          /\ frame < PinchFrames
          /\ Animate(in, rnd, jit)

SpecPinch == InitMode /\ [][NextPinch]_vars

Next == NextBurst \/ NextMode \/ NextFlicker \/ NextGesture \/ NextIdle \/ NextBlend
           \/ NextPointer \/ NextGen \/ NextAlloc \/ NextColour \/ NextHands
           \/ NextPinch

Spec == Init /\ [][Next]_vars

----------------------------------------------------------------------------
\* Properties of the burst subsystem (checked under SpecBurst)

Reserve == FIREWORK_PARTICLES_START .. (PARTICLE_COUNT - 1)

Flower == 0 .. (FLOWER_COUNT - 1)

\* the last event was a call of animate
FrameJustEnded == obs.last \in {"sensor", "stale", "pinch"}

\* the firework a spawn appended
Spawned(sp) == sp.after[Len(sp.after)]

\* C1: no particle index is a head or trail index of two different fireworks of
\* the live list at the same time (stated for the builds whose reserve is larger
\* than one burst, as the shipped one is)
C1_NoSharedIndex ==
    ReserveSize > SPARK_CNT * (1 + TRAIL_LEN) =>
        \A j, k \in 1 .. Len(fireworks) :
            j # k => FireworkIndices(fireworks[j]) \cap FireworkIndices(fireworks[k]) = {}

\* C2: after a frame, every index held by a firework that was in the live list
\* when that frame's fireworks update began (expiring ones included) holds the
\* position and colour the fireworks update left there: the particle loop wrote
\* neither
C2_IntegratorSkipsLive ==
    FrameJustEnded =>
        \A k \in 1 .. Len(obs.burst.live) :
            \A i \in FireworkIndices(obs.burst.live[k]) :
                curr[i] = obs.burst.curr[i] /\ cols[i] = obs.burst.cols[i]

C2_Witness ==
    /\ FrameJustEnded
    /\ Len(obs.burst.live) = 2
    /\ obs.burst.live[1].age = LIFE_FRAMES - 1
    /\ Len(fireworks) = 1
    /\ \E i \in FireworkIndices(obs.burst.live[1]) : obs.burst.curr[i] # obs.burst.currBefore[i]

\* C3: a firework is in the live list exactly while fewer than 90 fireworks updates
\* have run since its spawn, with its age equal to that number: it survives 89
\* updates and the 90th removes it, for click and pinch spawns alike; 90 frames
\* after the last spawn the list is empty
StillLive(sp) == frame - sp.frame < LIFE_FRAMES

C3_Lifetime ==
    LET due == SelectSeq(obs.spawns, StillLive)
    IN /\ Len(fireworks) = Len(due)
       /\ \A k \in 1 .. Len(due) :
             /\ fireworks[k].age = frame - due[k].frame
             /\ fireworks[k].sparks = Spawned(due[k]).sparks
       /\ (obs.spawns # << >> /\ frame >= obs.spawns[Len(obs.spawns)].frame + LIFE_FRAMES)
             => fireworks = << >>

C3_Witness ==
    /\ fireworks = << >>
    /\ Len(obs.spawns) = 2
    /\ {obs.spawns[1].via, obs.spawns[2].via} = {"click", "pinch"}
    /\ frame = obs.spawns[1].frame + LIFE_FRAMES
    /\ frame = obs.spawns[2].frame + LIFE_FRAMES

\* C4: a spawn at p appends exactly one firework, of age 0, with SPARK_CNT sparks of
\* one head and TRAIL_LEN trail indices each; its indices are the allocated ones,
\* lie in the reserve, are pairwise distinct when the reserve is large enough, and
\* the current position of each is p
C4_SpawnContract ==
    \A n \in 1 .. Len(obs.spawns) :
        LET sp == obs.spawns[n]
            fw == Spawned(sp)
        IN /\ Len(sp.after) = Len(sp.prior) + 1
           /\ SubSeq(sp.after, 1, Len(sp.prior)) = sp.prior
           /\ fw.age = 0
           /\ Len(fw.sparks) = SPARK_CNT
           /\ \A k \in 1 .. Len(fw.sparks) : Len(fw.sparks[k].trailIndices) = TRAIL_LEN
           /\ FireworkIndices(fw) = Range(sp.indices)
           /\ FireworkIndices(fw) \subseteq Reserve
           /\ SPARK_CNT * (1 + TRAIL_LEN) <= ReserveSize
                 => Cardinality(FireworkIndices(fw)) = SPARK_CNT * (1 + TRAIL_LEN)
           /\ \A i \in FireworkIndices(fw) : sp.curr[i] = sp.position
           /\ (obs.last = "click" /\ n = Len(obs.spawns))
                 => /\ fireworks = sp.after
                    /\ \A i \in FireworkIndices(fw) : curr[i] = sp.position

C4_Witness ==
    /\ Len(obs.spawns) = 2
    /\ obs.last = "click"
    /\ obs.spawns[1].via = "pinch"
    /\ ReserveSize > SPARK_CNT * (1 + TRAIL_LEN)
    /\ obs.spawns[2].position # obs.spawns[1].position
    /\ \E i \in Range(obs.spawns[2].indices) : obs.spawns[2].prior[1].age > 0 /\ curr[i] # obs.spawns[1].curr[i]

\* C5: with a reserve of exactly one burst, every spawn receives each reserve index
\* exactly once and leaves the cursor where it was, the firework is gone after
\* exactly 90 updates, and the next spawn receives the same indices
C5_TightCapacity ==
    ReserveSize = SPARK_CNT * (1 + TRAIL_LEN) =>
        /\ \A n \in 1 .. Len(obs.spawns) :
              LET sp == obs.spawns[n]
              IN /\ Len(sp.indices) = ReserveSize
                 /\ Range(sp.indices) = Reserve
                 /\ sp.cursorAfter = sp.cursorBefore
                 /\ FireworkIndices(Spawned(sp)) = Reserve
        /\ Len(fireworks) = Cardinality({n \in 1 .. Len(obs.spawns) : StillLive(obs.spawns[n])})
        /\ \A k \in 1 .. Len(fireworks) : fireworks[k].age < LIFE_FRAMES

C5_Witness ==
    /\ ReserveSize = SPARK_CNT * (1 + TRAIL_LEN)
    /\ Len(obs.spawns) = 2
    /\ obs.spawns[2].prior = << >>
    /\ obs.spawns[2].frame = obs.spawns[1].frame + LIFE_FRAMES
    /\ Range(obs.spawns[2].indices) = Range(obs.spawns[1].indices)
    /\ Len(fireworks) = 1

\* C6: the allocator cursor and every index ever handed out lie in
\* [FIREWORK_PARTICLES_START, PARTICLE_COUNT), and no live firework holds an index of
\* the flower range
C6_ReserveOnly ==
    /\ fireworkCursor \in Reserve
    /\ \A n \in 1 .. Len(obs.spawns) :
          /\ Range(obs.spawns[n].indices) \subseteq Reserve
          /\ obs.spawns[n].cursorAfter \in Reserve
    /\ \A k \in 1 .. Len(fireworks) : FireworkIndices(fireworks[k]) \cap Flower = {}

C6_Witness ==
    /\ Len(obs.spawns) = 2
    /\ obs.spawns[2].cursorAfter < obs.spawns[2].cursorBefore
    /\ PARTICLE_COUNT - 1 \in Range(obs.spawns[2].indices)
    /\ FIREWORK_PARTICLES_START \in Range(obs.spawns[2].indices)
    /\ Len(fireworks) = 2

----------------------------------------------------------------------------
\* Properties of the gesture state machine (checked under SpecMode and SpecFlicker)

\* the last event was a frame whose sensor step ran
SensorJustRan == obs.last = "sensor" /\ obs.sensor.processed

\* C7: the debounce counter is an integer of 0..10; a processed frame moves it up
\* by one, stopping at 10, when the gesture holds and down by one, stopping at 0,
\* when it does not; a frame that is not processed leaves it alone
C7_DebounceCounter ==
    /\ magicModeDebounce \in 0 .. 10
    /\ SensorJustRan =>
          magicModeDebounce =
             IF obs.sensor.detected
             THEN (IF obs.sensor.before = 10 THEN 10 ELSE obs.sensor.before + 1)
             ELSE (IF obs.sensor.before = 0 THEN 0 ELSE obs.sensor.before - 1)
    /\ obs.last = "stale" => magicModeDebounce = obs.sensor.before

C7_Witness ==
    /\ SensorJustRan
    /\ obs.sensor.detected
    /\ obs.sensor.before = 10
    /\ magicModeDebounce = 10
    /\ obs.processed < frame

\* C8: after a processed frame magic mode is on if the counter exceeds 6, off if the
\* counter is below 2, and unchanged if the counter is in 2..6; so it is entered
\* only in a frame where the gesture holds and left only in one where it does not
C8_Thresholds ==
    SensorJustRan =>
        /\ magicModeDebounce > 6 => isMagicMode
        /\ magicModeDebounce < 2 => ~isMagicMode
        /\ magicModeDebounce \in 2 .. 6 => isMagicMode = obs.sensor.magicBefore
        /\ (isMagicMode /\ ~obs.sensor.magicBefore) => obs.sensor.detected
        /\ (~isMagicMode /\ obs.sensor.magicBefore) => ~obs.sensor.detected

C8_Witness ==
    /\ SensorJustRan
    /\ magicModeDebounce = 2
    /\ isMagicMode
    /\ ~obs.sensor.detected
    /\ obs.lastFlip # 0

\* C9: any two consecutive changes of magic mode are at least 4 processed frames
\* apart
C9_TransitionSpacing == \A g \in obs.gaps : g >= 4

C9_Witness ==
    /\ Cardinality(obs.gaps) >= 1
    /\ isMagicMode
    /\ obs.lastFlip = obs.processed
    /\ obs.flips >= 2

\* C10: a processed frame classified differently from both the processed frame
\* before it and the one after it does not change magic mode
C10_SingleFrameGlitch ==
    (Len(obs.hist) = 3 /\ obs.hist[2].detected # obs.hist[1].detected
                       /\ obs.hist[2].detected # obs.hist[3].detected)
        => ~obs.hist[2].flipped

C10_Witness ==
    /\ Len(obs.hist) = 3
    /\ obs.hist[1].detected /\ ~obs.hist[2].detected /\ obs.hist[3].detected
    /\ obs.hist[1].d = 7 /\ obs.hist[2].d = 6 /\ obs.hist[3].d = 7
    /\ isMagicMode

----------------------------------------------------------------------------
\* Properties of the mode flags, the blend weights and the bloom factor (checked
\* under SpecGesture and SpecIdle)

\* the gesture condition of galaxy mode in the frame just sampled
GalaxyCondition ==
    obs.input.hasL /\ obs.input.hasR /\ obs.input.wrists < 250 /\ obs.input.pinkies < 80

\* the last frame had no new sample: detector or video not ready, or an old video time
NoNewSample == FrameJustEnded /\ (~obs.input.ready \/ videoTime = obs.pre.lastVideoTime)

\* C11: galaxy mode and magic mode are never both on; the frame that enters magic
\* mode leaves galaxy mode off, and a frame during magic mode cannot turn it on
C11_ModesExclusive ==
    /\ ~(isGalaxyMode /\ isMagicMode)
    /\ (SensorJustRan /\ isMagicMode /\ ~obs.pre.magic) => ~isGalaxyMode
    /\ (SensorJustRan /\ isMagicMode /\ obs.pre.magic) => ~isGalaxyMode

C11_Witness ==
    /\ SensorJustRan
    /\ isMagicMode /\ ~obs.pre.magic
    /\ obs.pre.galaxy /\ ~isGalaxyMode
    /\ GalaxyCondition

\* C12: after a processed frame that leaves magic mode off, galaxy mode is on exactly
\* if both hands are present with wrists closer than 0.25 and pinky tips closer than
\* 0.08 in that frame, whatever it was before
C12_GalaxyFromFrame ==
    (SensorJustRan /\ ~isMagicMode) => (isGalaxyMode <=> GalaxyCondition)

C12_Witness ==
    /\ SensorJustRan
    /\ ~isMagicMode
    /\ obs.pre.galaxy /\ ~isGalaxyMode
    /\ obs.input.hasL /\ ~obs.input.hasR

\* C13: both blend weights stay in [0, 1], and a frame moves each from its old value
\* toward the 0/1 target of its mode flag by the fixed fraction (0.08, 0.1) of the
\* remaining distance, to the unit: never past the target, never set directly
C13_BlendWeights ==
    /\ galaxyTransition \in 0 .. 1000
    /\ magicTransition \in 0 .. 1000
    /\ FrameJustEnded =>
          LET gTarget == IF isGalaxyMode THEN 1000 ELSE 0
              mTarget == IF isMagicMode THEN 1000 ELSE 0
              gErr == (galaxyTransition - obs.pre.gT) * 1000 - (gTarget - obs.pre.gT) * 80
              mErr == (magicTransition - obs.pre.mT) * 1000 - (mTarget - obs.pre.mT) * 100
          IN /\ gErr \in -999 .. 0
             /\ mErr \in -999 .. 0
             /\ galaxyTransition \in Min(obs.pre.gT, gTarget) .. Max(obs.pre.gT, gTarget)
             /\ magicTransition \in Min(obs.pre.mT, mTarget) .. Max(obs.pre.mT, mTarget)

C13_Witness ==
    /\ FrameJustEnded
    /\ obs.pre.gT > 0 /\ galaxyTransition < obs.pre.gT /\ galaxyTransition > 0
    /\ magicTransition > obs.pre.mT /\ magicTransition < 1000
    /\ isMagicMode

\* C14: the bloom factor is within [0, 1.5] after every frame, and so when the
\* particle loop reads it
C14_BloomRange == handFactor \in 0 .. 1500

\* C16: a frame without a new sample leaves the debounce counter, both mode flags,
\* the bloom factor, the rotation target, the left-hand reference, the pinch timer
\* and the last processed video time as they were and spawns nothing; no video time
\* is processed twice
C16_NoSampleNoChange ==
    /\ NoNewSample =>
          /\ magicModeDebounce = obs.pre.d
          /\ isMagicMode = obs.pre.magic
          /\ isGalaxyMode = obs.pre.galaxy
          /\ handFactor = obs.pre.hf
          /\ rotation = obs.pre.rotation
          /\ prevLeftHand = obs.pre.prevLeftHand
          /\ lastFireworkTime = obs.pre.lastFireworkTime
          /\ lastVideoTime = obs.pre.lastVideoTime
          /\ Len(obs.spawns) = obs.pre.spawns
          /\ Len(obs.stamps) = obs.processed
          /\ obs.last = "stale"
    /\ \A j, k \in 1 .. Len(obs.stamps) : j # k => obs.stamps[j] # obs.stamps[k]
    /\ Len(obs.stamps) = obs.processed

C16_Witness ==
    /\ NoNewSample
    /\ obs.input.ready
    /\ obs.input.hasR /\ obs.input.rDist < PINCH_DIST
    /\ timeNow - lastFireworkTime > PINCH_COOLDOWN
    /\ ~isMagicMode
    /\ magicModeDebounce > 0
    /\ handFactor > 0
    /\ rotation # [x |-> 0, y |-> 0]
    /\ obs.input.hasL /\ prevLeftHand # NoHand /\ prevLeftHand # obs.input.lRef

\* the last frame was processed and showed no hand, as did the n - 1 processed
\* frames before it
IdleRun(n) == SensorJustRan /\ obs.idle >= n

----------------------------------------------------------------------------
\* Properties of one frame (checked under SpecBurst and SpecBlend)

\* C17: in a frame with live fireworks the steps run in the order gesture sampling,
\* state machine, integrator, burst update, render (the state machine only if the
\* frame is processed)
C17_FrameOrder ==
    (FrameJustEnded /\ obs.burst.live # << >>) =>
        obs.order \in { << "gesture", "state machine", "integrator", "burst update", "render" >>,
                        << "gesture", "integrator", "burst update", "render" >> }

OwnsItsIndices(fws, k) ==
    /\ Cardinality(FireworkIndices(fws[k])) = SPARK_CNT * (1 + TRAIL_LEN)
    /\ \A j \in 1 .. Len(fws) : j # k => FireworkIndices(fws[j]) \cap FireworkIndices(fws[k]) = {}

\* C19: after the burst update of a firework that shares no index (with another live
\* firework, or with itself in a build whose reserve is smaller than a burst), in every
\* spark the first trail index holds the position the head had before the update and
\* every later trail index the position its predecessor had before the update
C19_TrailChain ==
    FrameJustEnded =>
        \A k \in 1 .. Len(obs.burst.live) :
            OwnsItsIndices(obs.burst.live, k) =>
                \A n \in 1 .. Len(obs.burst.live[k].sparks) :
                    LET spark == obs.burst.live[k].sparks[n]
                        trail == spark.trailIndices
                    IN /\ obs.burst.curr[trail[1]] = obs.burst.currBefore[spark.headIdx]
                       /\ \A t \in 2 .. Len(trail) :
                             obs.burst.curr[trail[t]] = obs.burst.currBefore[trail[t - 1]]

C19_Witness ==
    /\ FrameJustEnded
    /\ Len(obs.burst.live) = 1
    /\ OwnsItsIndices(obs.burst.live, 1)
    /\ obs.burst.live[1].age >= TRAIL_LEN
    /\ LET spark == obs.burst.live[1].sparks[1]
       IN /\ obs.burst.curr[spark.trailIndices[TRAIL_LEN]] # obs.burst.curr[spark.trailIndices[1]]
          /\ obs.burst.curr[spark.trailIndices[1]] # obs.burst.curr[spark.headIdx]
          /\ obs.burst.curr[spark.trailIndices[TRAIL_LEN]]
                # obs.burst.currBefore[spark.trailIndices[TRAIL_LEN]]

\* C20: for every index a firework has held, the ambient drift parameters are those it
\* had before the spawn, and the shape target buffers are those of construction
C20_SteadyParamsKept ==
    /\ \A k \in 1 .. Len(obs.spawns) :
          \A n \in 1 .. Len(obs.spawns[k].indices) :
              drifts[obs.spawns[k].indices[n]] = sampleLotusDrift(obs.spawns[k].indices[n])
    /\ \A i \in Indices :
          /\ shapes.lotusPos[i] = sampleLotusPos(i)
          /\ shapes.galPos[i] = sampleGalPos(i)
          /\ shapes.magPos[i] = sampleMagPos(i)

----------------------------------------------------------------------------
\* Properties of startup and of the pointer

\* C21: in a build whose reserved range is smaller than the demand of one burst, no
\* frame is processed and no spawn is served
C21_UndersizedIsFatal ==
    ReserveSize < SlotsPerBurst => (frame = 0 /\ obs.spawns = << >>)

\* C22: after a frame in which the pointer ray does not meet the plane, the hover
\* world point is the one the previous frame ended with (the off-scene point before
\* the first frame), and its coordinates are numbers at all times
C22_HoverHeld ==
    /\ mouseWorldPos \in Int \X Int \X Int
    /\ (FrameJustEnded /\ ~obs.hover.hit) => mouseWorldPos = obs.hover.prevEnd
    /\ mouseWorldPos = obs.hover.end

C22_Witness ==
    /\ FrameJustEnded
    /\ ~obs.hover.hit
    /\ mouseWorldPos = RayIntersect("a").at
    /\ obs.moves >= 2

\* C23: the burst of a click is placed where the pointer ray meets the plane, and at
\* the last-known world point when the ray does not meet it
C23_ClickHoldsLastPoint ==
    obs.last = "click" =>
        obs.spawns[Len(obs.spawns)].position =
            IF RayIntersect(pointer).hit THEN RayIntersect(pointer).at ELSE mouseWorldPos

----------------------------------------------------------------------------
\* Properties of the shape generators (checked under SpecGen)

Generated == obs.last = "generate"

Population(region) == Cardinality({ i \in DOMAIN obs.gen.buf.reg : obs.gen.buf.reg[i] = region })

Regions(name) ==
    CASE name = "lotus" -> { layers[l].name : l \in 1 .. Len(layers) } \cup { "pod", "background" }
      [] name = "galaxy" -> { "stars", "arms" }
      [] OTHER -> { "ring", "hexagram", "runes", "centre" }

RECURSIVE PopulationSum(_)
PopulationSum(set) ==
    IF set = {} THEN 0
    ELSE LET x == CHOOSE y \in set : TRUE IN Population(x) + PopulationSum(set \ {x})

\* C24: a generator run for a size of at least the pod count leaves every index of
\* 0 .. N-1 in one of its sub-regions, aims no write outside 0 .. N-1, and the
\* populations of its sub-regions add up to N; the last loop of the emblem generator
\* ends after as many iterations as indices were left
C24_RegionsCoverN ==
    (Generated /\ obs.gen.n >= POD_COUNT) =>
        /\ Len(obs.gen.buf.reg) = obs.gen.n
        /\ \A i \in DOMAIN obs.gen.buf.reg : obs.gen.buf.reg[i] \in Regions(obs.gen.name)
        /\ obs.gen.buf.outside = {}
        /\ PopulationSum(Regions(obs.gen.name)) = obs.gen.n
        /\ obs.gen.name = "magic" =>
              obs.gen.fillSteps = obs.gen.n - Population("ring") - Population("hexagram")
                                     - Population("runes")

C24_Witness ==
    /\ Generated
    /\ obs.gen.name = "lotus"
    /\ obs.gen.flower = 117
    /\ Population("petals1") = 18
    /\ Population("petals5") = 20
    /\ Population("background") > obs.gen.n - obs.gen.flower

\* C25: the population of every sub-region is its configured split whatever the
\* draws: pod count, the petal share of each layer, 35%, 25% and 20% of N for the
\* outer ring, the hexagram and the rune ring, the last region taking the rest
C25_ConfiguredSplits ==
    Generated =>
        /\ (obs.gen.name = "lotus" /\ obs.gen.flower >= POD_COUNT) =>
              /\ Population("pod") = POD_COUNT
              /\ \A l \in 1 .. Len(layers) :
                    Population(layers[l].name) =
                       layers[l].count * (((obs.gen.flower - POD_COUNT) \div Len(layers))
                                              \div layers[l].count)
        /\ obs.gen.name = "magic" =>
              /\ Population("ring") = countRing(obs.gen.n)
              /\ Population("hexagram") = countStar(obs.gen.n)
              /\ Population("runes") = countRunes(obs.gen.n)

----------------------------------------------------------------------------
\* Properties of the buffers (checked under SpecBurst)

\* C26: the six shape target buffers hold what generation put there, whatever pointer
\* moves, clicks, pinches and frames have happened; in particular no write to the
\* current positions reaches the flower position buffer
C26_ShapesImmutable ==
    \A i \in Indices :
        /\ shapes.lotusPos[i] = sampleLotusPos(i) /\ shapes.lotusCol[i] = sampleLotusCol(i)
        /\ shapes.galPos[i] = sampleGalPos(i) /\ shapes.galCol[i] = sampleGalCol(i)
        /\ shapes.magPos[i] = sampleMagPos(i) /\ shapes.magCol[i] = sampleMagCol(i)

C26_Witness ==
    /\ FrameJustEnded
    /\ obs.moves >= 1
    /\ Len(obs.spawns) = 2
    /\ obs.spawns[1].via # obs.spawns[2].via
    /\ \E k \in 1 .. Len(fireworks) : fireworks[k].age >= 2
    /\ \E i \in Indices : i < FLOWER_COUNT /\ curr[i] # shapes.lotusPos[i]
    /\ \E i \in Indices : i >= FLOWER_COUNT /\ curr[i] # shapes.lotusPos[i]

----------------------------------------------------------------------------
\* Properties of the allocator (checked under SpecAlloc)

\* the index that is k places after index i on the ring of the reserve
RingAfter(i, k) ==
    FIREWORK_PARTICLES_START + ((i - FIREWORK_PARTICLES_START + k) % ReserveSize)

\* C27: every spawn receives the slots-per-burst consecutive indices of the ring that
\* start at the cursor, PARTICLE_COUNT - 1 being followed by FIREWORK_PARTICLES_START,
\* and leaves the cursor that many places further on the ring; so the n-th index
\* handed out since startup is n - 1 places after FIREWORK_PARTICLES_START, and any k
\* consecutive spawns receive pairwise disjoint index sets when k bursts fit into the
\* reserve
C27_RingAllocation ==
    \A m \in 1 .. Len(obs.spawns) :
        LET sp == obs.spawns[m]
        IN /\ Len(sp.indices) = SlotsPerBurst
           /\ \A n \in 1 .. Len(sp.indices) :
                 /\ sp.indices[n] = RingAfter(sp.cursorBefore, n - 1)
                 /\ sp.indices[n] = RingAfter(FIREWORK_PARTICLES_START,
                                              (m - 1) * SlotsPerBurst + n - 1)
           /\ sp.cursorAfter = RingAfter(sp.cursorBefore, SlotsPerBurst)
           /\ m = Len(obs.spawns) => fireworkCursor = sp.cursorAfter
           /\ \A j \in 1 .. (m - 1) :
                 (m - j + 1) * SlotsPerBurst <= ReserveSize
                    => Range(obs.spawns[j].indices) \cap Range(sp.indices) = {}

C27_Witness ==
    /\ Len(obs.spawns) = 4
    /\ ReserveSize = 3 * SlotsPerBurst
    /\ Range(obs.spawns[1].indices) \cap Range(obs.spawns[3].indices) = {}
    /\ Range(obs.spawns[4].indices) = Range(obs.spawns[1].indices)
    /\ obs.spawns[3].cursorAfter < obs.spawns[3].cursorBefore
    /\ \E m \in 1 .. 4 : obs.spawns[m].via = "pinch"

\* C29: every index handed out lies in the declared reserve, the
\* FIREWORK_PARTICLES_COUNT indices from FIREWORK_PARTICLES_START on
C29_DeclaredReserve ==
    \A m \in 1 .. Len(obs.spawns) :
        \A n \in 1 .. Len(obs.spawns[m].indices) :
            /\ obs.spawns[m].indices[n] >= FIREWORK_PARTICLES_START
            /\ obs.spawns[m].indices[n] < FIREWORK_PARTICLES_START + FIREWORK_PARTICLES_COUNT

----------------------------------------------------------------------------
\* Properties of the colour blend (checked under SpecColour)

\* the star field of the galaxy generator
StarLayer(i) == generateGalaxy(PARTICLE_COUNT).buf.reg[i + 1] = "stars"

\* the colour of particle i blended through the priority chain, without modulation
PlainColour(gT, mT, i) ==
    Lerp3(Lerp3(shapes.lotusCol[i], shapes.galCol[i], gT), shapes.magCol[i], mT)

\* C30: a particle's colour is modulated only while a shape dominates the blend: with
\* the emblem weight at most 0.5, the colour is the plain blend unless the galaxy
\* weight exceeds 0.5 and the particle is of the star field
C30_GlowOnlyDominant ==
    (/\ obs.last = "colour"
     /\ obs.colour.mT <= 500
     /\ obs.colour.gT <= 500 \/ ~StarLayer(obs.colour.i))
        => obs.colour.col = PlainColour(obs.colour.gT, obs.colour.mT, obs.colour.i)

----------------------------------------------------------------------------
\* Properties of the return of indices (checked under SpecBurst)

\* the state the particle loop of the last frame started from
BeforeIntegrator == [S EXCEPT !.curr = obs.integ.currBefore, !.cols = obs.integ.colsBefore]

\* C28: in the frame after the one whose fireworks update removed a firework, every
\* index it held that no firework of that frame's list holds has gone through the
\* particle loop: its position and colour are those one iteration of the loop
\* computes from the blended shape target and the shape colours; and a spawn receives
\* the indices of the ring from the cursor on, whoever held them before
C28_IndicesResume ==
    /\ FrameJustEnded =>
          \A k \in 1 .. Len(obs.burst.endedBefore) :
              \A i \in FireworkIndices(obs.burst.endedBefore[k]) \ obs.burst.active :
                  \E jit \in Jitters :
                      /\ curr[i] = IntegrateParticle(BeforeIntegrator, i, jit).pos
                      /\ cols[i] = IntegrateParticle(BeforeIntegrator, i, jit).col
    /\ \A m \in 1 .. Len(obs.spawns) :
          \A n \in 1 .. Len(obs.spawns[m].indices) :
              obs.spawns[m].indices[n] = RingAfter(obs.spawns[m].cursorBefore, n - 1)

C28_Witness ==
    /\ FrameJustEnded
    /\ Len(obs.burst.endedBefore) = 1
    /\ obs.burst.active # {}
    /\ FireworkIndices(obs.burst.endedBefore[1]) \cap obs.burst.active # {}
    /\ \E i \in FireworkIndices(obs.burst.endedBefore[1]) \ obs.burst.active :
          /\ curr[i] # obs.integ.currBefore[i]
          /\ cols[i] # obs.integ.colsBefore[i]

----------------------------------------------------------------------------
\* Properties of the hand gestures (checked under SpecHands)

\* the last event was a frame whose sensor step ran, with or without a pinch spawn
ProcessedJustEnded == obs.last \in {"sensor", "pinch"} /\ obs.sensor.processed

\* C31: a processed frame that leaves magic mode on after its debounce step spawns no
\* firework from a pinch and leaves the pinch timer alone, does not move the bloom
\* factor toward the pinch-distance target (it stays with a right hand in view and
\* decays toward 0 without one), and leaves the rotation target and the left-hand
\* reference as they were
C31_MagicDisablesHands ==
    (ProcessedJustEnded /\ isMagicMode) =>
        /\ obs.last = "sensor"
        /\ Len(obs.spawns) = obs.pre.spawns
        /\ lastFireworkTime = obs.pre.lastFireworkTime
        /\ handFactor = IF obs.input.hasR THEN obs.pre.hf
                        ELSE obs.pre.hf + ((0 - obs.pre.hf) * 5) \div 100
        /\ rotation = obs.pre.rotation
        /\ prevLeftHand = obs.pre.prevLeftHand

C31_Witness ==
    /\ ProcessedJustEnded
    /\ isMagicMode
    /\ ~magicGestureDetected(obs.input)
    /\ obs.input.hasR /\ obs.input.rDist < PINCH_DIST
    /\ timeNow - lastFireworkTime > PINCH_COOLDOWN
    /\ obs.pre.hf > 0
    /\ BloomTarget(obs.input.rDist) # obs.pre.hf
    /\ obs.input.hasL /\ obs.input.lDist > 80
    /\ prevLeftHand # NoHand /\ prevLeftHand # obs.input.lRef

----------------------------------------------------------------------------
\* Properties of the pinch timer (checked under SpecPinch)

PinchSpawns == SelectSeq(obs.spawns, LAMBDA sp : sp.via = "pinch")

\* the frame time of the latest pinch spawn, 0 (the timer's first value) before any
LastPinchTime ==
    IF PinchSpawns = << >> THEN 0 ELSE PinchSpawns[Len(PinchSpawns)].time

\* C32: a frame adds at most one spawn; the frame times of any two pinch spawns
\* differ by more than 250 ms; the timer holds the frame time of the latest pinch
\* spawn whatever clicks came since, and a click always spawns
C32_PinchRateLimit ==
    /\ FrameJustEnded => Len(obs.spawns) - obs.pre.spawns \in {0, 1}
    /\ \A j, k \in 1 .. Len(PinchSpawns) :
          j < k => PinchSpawns[k].time - PinchSpawns[j].time > PINCH_COOLDOWN
    /\ lastFireworkTime = LastPinchTime
    /\ obs.last = "click" =>
          /\ obs.spawns # << >>
          /\ obs.spawns[Len(obs.spawns)].via = "click"
          /\ obs.spawns[Len(obs.spawns)].time = timeNow

C32_Witness ==
    /\ ProcessedJustEnded
    /\ obs.last = "sensor"
    /\ obs.input.hasR /\ obs.input.rDist < PINCH_DIST /\ ~isMagicMode
    /\ timeNow - lastFireworkTime \in 1 .. PINCH_COOLDOWN
    /\ Len(PinchSpawns) >= 2
    /\ obs.spawns[Len(obs.spawns)].via = "click"
    /\ obs.spawns[Len(obs.spawns)].time - LastPinchTime \in 0 .. PINCH_COOLDOWN

----------------------------------------------------------------------------
\* Properties of the left-hand rotation (checked under SpecHands)

\* the rotation target moved by the displacement of the reference point from a to b
Rotated(rot, a, b) == [x |-> rot.x - (b[2] - a[2]) * 5, y |-> rot.y - (b[1] - a[1]) * 7]

\* C33: a frame changes the rotation target only if it is processed and both it and
\* the processed frame before it showed the left hand open with magic mode off, and
\* then by the displacement of the reference point between the two; after a
\* processed frame without the left hand or in magic mode, the first open-hand frame
\* leaves the rotation target as it was
C33_RotationChain ==
    FrameJustEnded =>
        IF ProcessedJustEnded /\ obs.left.open /\ obs.left.prevOpen
        THEN rotation = Rotated(obs.pre.rotation, obs.left.prevRef, obs.left.ref)
        ELSE rotation = obs.pre.rotation

====
